---- MODULE Spec2Model ----
(***************************************************************************)
(* go-evm-kit: the transaction pipeline of Wallet (NewTx, SignTx,          *)
(* BuildTxOpts, SendSignedTx, SendTx), the chain-identity cache of         *)
(* Provider, the receipt poller of Kit (WaitForReceiptWithInterval),       *)
(* Kit.SendTxAndWait and the converter (ToDecimal, ToWei).                 *)
(*                                                                         *)
(* The node behind the JSON-RPC endpoint is the environment: every query   *)
(* either fails or answers, and the answer is drawn from a small set.      *)
(***************************************************************************)
EXTENDS Integers, Naturals, Sequences, FiniteSets, TLC

----------------------------------------------------------------------------
(* Go values *)

\* A pointer (*big.Int, *types.Transaction, *types.Receipt) is the empty set
\* when nil and a singleton otherwise.
Nil == {}
Ptr(v) == {v}
Deref(p) == CHOOSE v \in p : TRUE

\* error values; "nil" is the nil error
NoErr == "nil"

----------------------------------------------------------------------------
(* Bounds of the model *)

\* calls one caller makes on the same Wallet / Provider, and of the methods
\* that only need the chain identity
MaxCalls == 2
MaxChainCalls == 3
\* the pending nonce up to which other transactions of the account arrive
MaxNonce == 7

\* goroutines that use the Wallet; the sequential specification runs caller 1
Procs == {1, 2}
Callers == {1}

\* caller-supplied arguments of NewTx / SendTx
Addrs     == {"A", "B"}
Nonces    == {0, 3}
GasLimits == {0, 7}
GasPrices == {Nil, Ptr(0), Ptr(-1), Ptr(4)}
Values    == {Nil, Ptr(-2), Ptr(1)}
Datas     == {<<>>, <<171>>}

\* answers of the node
NonceAnswers    == {0, 5}
PriceAnswers    == {2, 6}
EstimateAnswers == {21, 50}
ChainIds        == {1, 5}

TxArgs == [to : Addrs, nonce : Nonces, gasLimit : GasLimits,
           gasPrice : GasPrices, value : Values, data : Datas]

----------------------------------------------------------------------------
VARIABLES
    pc,        \* pc[p]: where caller p stands in its call
    op,        \* op[p]: the exported method caller p is running
    args,      \* args[p]: the arguments of the call
    loc,       \* loc[p]: the local variables of the call
    log,       \* log[p]: the requests the call has made to the node, in order
    ret,       \* ret[p]: what the call returned
    calls,     \* calls[p]: calls started by p
    chainId,   \* Provider.chainId, the cached chain identity (a *big.Int)
    chainHist, \* the Provider's history: how it was made, the answers to its
               \* chain-identity queries, the values GetChainID returned
    nodeNonce  \* the node's pending nonce of the wallet's account

varsTx == <<pc, op, args, loc, log, ret, calls, chainId, chainHist, nodeNonce>>

\* The converter keeps no state of its own: conv is the record of the
\* conversions a caller has made, each with its arguments and its result.
VARIABLE conv

varsConv == <<conv>>

\* The address of the wallet's key.
WalletAddress == "W"

ZeroHash == <<"hash", Nil>>
\* types.Transaction.Hash: a function of the signed content.
Hash(signedTx) == <<"hash", signedTx>>

NoArgs == [to |-> "A", nonce |-> 0, gasLimit |-> 0, gasPrice |-> Nil,
           value |-> Nil, data |-> <<>>]
NoLoc  == [nonce |-> 0, gasLimit |-> 0, gasPrice |-> Nil, tx |-> Nil,
           chainId |-> Nil, signedTx |-> Nil, txOpts |-> Nil,
           txHash |-> ZeroHash]
NoRet  == [tx |-> Nil, hash |-> ZeroHash, err |-> NoErr, chainId |-> Nil,
           txOpts |-> Nil, receipt |-> Nil]

InitTx ==
    /\ pc = [p \in Procs |-> "idle"]
    /\ op = [p \in Procs |-> "none"]
    /\ args = [p \in Procs |-> NoArgs]
    /\ loc = [p \in Procs |-> NoLoc]
    /\ log = [p \in Procs |-> <<>>]
    /\ ret = [p \in Procs |-> NoRet]
    /\ calls = [p \in Procs |-> 0]
    \* NewProvider leaves chainId nil, NewProviderWithChainId sets it
    /\ chainId \in {Nil} \cup {Ptr(c) : c \in ChainIds}
    /\ chainHist = [ctor |-> IF chainId = Nil THEN "NewProvider"
                             ELSE "NewProviderWithChainId",
                    asked |-> <<>>, got |-> <<>>]
    /\ nodeNonce \in NonceAnswers

----------------------------------------------------------------------------
(* The requests to the node and their possible outcomes *)

\* A request to the node (or a use of the key): what was sent, what came back.
Entry(kind, msg, r) == [kind |-> kind, msg |-> msg, val |-> r.val, err |-> r.err]
Logged(p, kind, msg, r) ==
    log' = [log EXCEPT ![p] = Append(@, Entry(kind, msg, r))]

\* Wallet.GetNonce: PendingNonceAt(ctx, w.GetAddress()); fails or answers
\* the node's pending nonce of the account.
GetNonce ==
    {[val |-> nodeNonce, err |-> NoErr], [val |-> 0, err |-> "errNonce"]}

\* Provider.GetSuggestGasPrice: SuggestGasPrice(ctx).
GetSuggestGasPrice ==
    {[val |-> Ptr(v), err |-> NoErr] : v \in PriceAnswers}
        \cup {[val |-> Nil, err |-> "errPrice"]}

\* The ethereum.CallMsg that Provider.EstimateGas submits.
CallMsg(from, to, nonce, gasPrice, value, data) ==
    [From |-> from, To |-> Ptr(to), GasPrice |-> gasPrice, Value |-> value,
     Data |-> data, Gas |-> 0, GasFeeCap |-> Nil, GasTipCap |-> Nil,
     AccessList |-> Nil]

\* Provider.EstimateGas: the outcomes of the estimate.
EstimateGas ==
    {[val |-> g, err |-> NoErr] : g \in EstimateAnswers}
        \cup {[val |-> 0, err |-> "errEstimate"]}

\* ethclient.ChainID as Provider.GetChainID calls it.
ChainID ==
    {[val |-> Ptr(c), err |-> NoErr] : c \in ChainIds}
        \cup {[val |-> Nil, err |-> "errChainID"]}

\* A transaction signed for a chain identity with the wallet's key.
SignedTx(tx, chain) ==
    Ptr([tx |-> Deref(tx), chainId |-> Deref(chain), signer |-> WalletAddress])

\* types.SignTx(tx, types.NewLondonSigner(chainId), w.privateKey): the signed
\* transaction, or an error.
TypesSignTx(tx, chain) ==
    {[val |-> SignedTx(tx, chain), err |-> NoErr],
     [val |-> Nil, err |-> "errSign"]}

\* The node's rule for the nonce of a broadcast: a transaction whose nonce is
\* below the pending nonce of its account is a duplicate or stale.
StaleNonce(signedTx) == Deref(signedTx).tx.Nonce < nodeNonce

\* ethclient.SendTransaction: nil when the node accepts, its error otherwise.
SendTransaction(signedTx) ==
    IF StaleNonce(signedTx)
    THEN {[val |-> Nil, err |-> "errNonceTooLow"]}
    ELSE {[val |-> Nil, err |-> NoErr], [val |-> Nil, err |-> "errBroadcast"]}

\* The pending nonce of the account once the node has accepted signedTx.
PendingNonceAfter(signedTx) ==
    IF Deref(signedTx).tx.Nonce = nodeNonce THEN nodeNonce + 1 ELSE nodeNonce

----------------------------------------------------------------------------
(* Wallet.NewTx *)

\* big.Int.Sign
Sign(x) == IF x < 0 THEN -1 ELSE IF x = 0 THEN 0 ELSE 1

NonceUnset(nonce) == nonce = 0
GasPriceUnset_NilOnly(gasPrice) == gasPrice = Nil
GasPriceUnset(gasPrice) == gasPrice = Nil \/ Sign(Deref(gasPrice)) = 0
GasLimitUnset(gasLimit) == gasLimit = 0

\* The order of the three resolutions in Wallet.NewTx.
FirstStep == "nonce"
NextStep_GasLimitFirst(step) ==
    CASE step = "nonce" -> "gas" [] step = "gas" -> "price"
      [] step = "price" -> "build"
NextStep(step) ==
    CASE step = "nonce" -> "price" [] step = "price" -> "gas"
      [] step = "gas" -> "build"

NewTx_NoNonce(to, nonce, gasLimit, gasPrice, value, data) ==
    Ptr([Nonce |-> 0, To |-> Ptr(to), Value |-> value, Gas |-> gasLimit,
         GasPrice |-> gasPrice, Data |-> data])
NewTx_GasForNonce(to, nonce, gasLimit, gasPrice, value, data) ==
    Ptr([Nonce |-> gasLimit, To |-> Ptr(to), Value |-> value, Gas |-> nonce,
         GasPrice |-> gasPrice, Data |-> data])
\* NewTx of transaction.go: a legacy transaction of the given fields.
NewTx(to, nonce, gasLimit, gasPrice, value, data) ==
    Ptr([Nonce |-> nonce, To |-> Ptr(to), Value |-> value, Gas |-> gasLimit,
         GasPrice |-> gasPrice, Data |-> data])

\* The methods that begin with Wallet.NewTx, and those that begin with
\* Provider.GetChainID.
BuildOps == {"NewTx", "SendTx", "SendTxAndWait"}
ChainOps == {"GetChainID", "SignTx", "BuildTxOpts"}

\* where a method begins
EntryStep(o) ==
    CASE o \in BuildOps -> FirstStep
      [] o \in ChainOps -> "chainid"
      [] o = "SendSignedTx" -> "send"

\* the calls a caller makes of a method
CallLimit(o) == IF o \in ChainOps THEN MaxChainCalls ELSE MaxCalls

\* A caller starts method o with arguments a; l are its locals at entry.
Call(p, o, a, l) ==
    /\ pc[p] = "idle"
    /\ calls[p] < CallLimit(o)
    /\ calls' = [calls EXCEPT ![p] = @ + 1]
    /\ op' = [op EXCEPT ![p] = o]
    /\ args' = [args EXCEPT ![p] = a]
    /\ loc' = [loc EXCEPT ![p] = l]
    /\ log' = [log EXCEPT ![p] = <<>>]
    /\ ret' = [ret EXCEPT ![p] = NoRet]
    /\ pc' = [pc EXCEPT ![p] = EntryStep(o)]
    /\ UNCHANGED <<chainId, chainHist, nodeNonce>>

\* nonce, gasLimit and gasPrice are parameters that NewTx assigns to
TxLocals(a) == [NoLoc EXCEPT !.nonce = a.nonce, !.gasLimit = a.gasLimit,
                            !.gasPrice = a.gasPrice]

\* the arguments of the sends of two callers from the one account
AccountArgs == [to : {"A"}, nonce : Nonces, gasLimit : {7},
                gasPrice : {Nil, Ptr(4)}, value : {Nil}, data : {<<>>}]

CallNewTx(p) == \E a \in TxArgs : Call(p, "NewTx", a, TxLocals(a))
CallSendTxFromAccount(p) ==
    \E a \in AccountArgs : Call(p, "SendTx", a, TxLocals(a))
CallSendTx(p) == \E a \in TxArgs : Call(p, "SendTx", a, TxLocals(a))

\* The exported method returns r.
Return(p, r) ==
    /\ ret' = [ret EXCEPT ![p] = r]
    /\ pc' = [pc EXCEPT ![p] = "done"]

\* The caller has its result and is ready for its next call.
Finish(p) ==
    /\ pc[p] = "done"
    /\ pc' = [pc EXCEPT ![p] = "idle"]
    /\ op' = [op EXCEPT ![p] = "none"]
    /\ args' = [args EXCEPT ![p] = NoArgs]
    /\ loc' = [loc EXCEPT ![p] = NoLoc]
    /\ log' = [log EXCEPT ![p] = <<>>]
    /\ ret' = [ret EXCEPT ![p] = NoRet]
    /\ UNCHANGED <<calls, chainId, chainHist, nodeNonce>>

NewTxFails_Continue(p, err) ==
    /\ pc' = [pc EXCEPT ![p] = NextStep(pc[p])]
    /\ UNCHANGED ret
\* Wallet.NewTx returns (nil, err); inside SendTx that returns ([32]byte{}, err).
NewTxFails(p, err) ==
    Return(p, [NoRet EXCEPT !.err = err])

NewTx_Nonce_Shadowed(p) ==
    /\ pc[p] = "nonce"
    /\ IF NonceUnset(loc[p].nonce)
       THEN \E r \in GetNonce :
              /\ Logged(p, "GetNonce", WalletAddress, r)
              /\ IF r.err # NoErr
                 THEN NewTxFails(p, r.err) /\ UNCHANGED loc
                 ELSE /\ pc' = [pc EXCEPT ![p] = NextStep("nonce")]
                      /\ UNCHANGED <<loc, ret>>
       ELSE /\ pc' = [pc EXCEPT ![p] = NextStep("nonce")]
            /\ UNCHANGED <<loc, log, ret>>
    /\ UNCHANGED <<op, args, calls, chainId, chainHist, nodeNonce>>
\* if nonce == 0 { nonce, err = w.GetNonce(ctx) ... }
NewTx_Nonce(p) ==
    /\ pc[p] = "nonce"
    /\ IF NonceUnset(loc[p].nonce)
       THEN \E r \in GetNonce :
              /\ Logged(p, "GetNonce", WalletAddress, r)
              /\ IF r.err # NoErr
                 THEN NewTxFails(p, r.err) /\ UNCHANGED loc
                 ELSE /\ loc' = [loc EXCEPT ![p].nonce = r.val]
                      /\ pc' = [pc EXCEPT ![p] = NextStep("nonce")]
                      /\ UNCHANGED ret
       ELSE /\ pc' = [pc EXCEPT ![p] = NextStep("nonce")]
            /\ UNCHANGED <<loc, log, ret>>
    /\ UNCHANGED <<op, args, calls, chainId, chainHist, nodeNonce>>

\* if gasPrice == nil || gasPrice.Sign() == 0 { gasPrice, err = GetSuggestGasPrice(ctx) ... }
NewTx_GasPrice(p) ==
    /\ pc[p] = "price"
    /\ IF GasPriceUnset(loc[p].gasPrice)
       THEN \E r \in GetSuggestGasPrice :
              /\ Logged(p, "GetSuggestGasPrice", <<>>, r)
              /\ IF r.err # NoErr
                 THEN NewTxFails(p, r.err) /\ UNCHANGED loc
                 ELSE /\ loc' = [loc EXCEPT ![p].gasPrice = r.val]
                      /\ pc' = [pc EXCEPT ![p] = NextStep("price")]
                      /\ UNCHANGED ret
       ELSE /\ pc' = [pc EXCEPT ![p] = NextStep("price")]
            /\ UNCHANGED <<loc, log, ret>>
    /\ UNCHANGED <<op, args, calls, chainId, chainHist, nodeNonce>>

\* if gasLimit == 0 { gasLimit, err = w.ep.EstimateGas(ctx, w.GetAddress(), to, nonce, gasPrice, value, data) ... }
NewTx_GasLimit(p) ==
    /\ pc[p] = "gas"
    /\ IF GasLimitUnset(loc[p].gasLimit)
       THEN \E r \in EstimateGas :
              /\ Logged(p, "EstimateGas",
                        CallMsg(WalletAddress, args[p].to, loc[p].nonce,
                                loc[p].gasPrice, args[p].value, args[p].data),
                        r)
              /\ IF r.err # NoErr
                 THEN NewTxFails(p, r.err) /\ UNCHANGED loc
                 ELSE /\ loc' = [loc EXCEPT ![p].gasLimit = r.val]
                      /\ pc' = [pc EXCEPT ![p] = NextStep("gas")]
                      /\ UNCHANGED ret
       ELSE /\ pc' = [pc EXCEPT ![p] = NextStep("gas")]
            /\ UNCHANGED <<loc, log, ret>>
    /\ UNCHANGED <<op, args, calls, chainId, chainHist, nodeNonce>>

\* return NewTx(to, nonce, gasLimit, gasPrice, value, data); SendTx goes on
\* to SignTx with the transaction.
NewTx_Build(p) ==
    /\ pc[p] = "build"
    /\ LET tx == NewTx(args[p].to, loc[p].nonce, loc[p].gasLimit,
                       loc[p].gasPrice, args[p].value, args[p].data)
       IN  /\ loc' = [loc EXCEPT ![p].tx = tx]
           /\ IF op[p] = "NewTx"
              THEN Return(p, [NoRet EXCEPT !.tx = tx])
              ELSE /\ pc' = [pc EXCEPT ![p] = "chainid"]
                   /\ UNCHANGED ret
    /\ UNCHANGED <<op, args, log, calls, chainId, chainHist, nodeNonce>>

----------------------------------------------------------------------------
(* Provider.GetChainID, Wallet.SignTx, Wallet.BuildTxOpts,                 *)
(* Wallet.SendSignedTx, Wallet.SendTx                                      *)

\* the transactions a caller hands to SignTx: with and without a recipient,
\* with no value, a negative one, a positive one
Txs == {Ptr([Nonce |-> 3, To |-> to, Value |-> v, Gas |-> 7,
             GasPrice |-> Ptr(4), Data |-> <<>>]) :
            to \in {Nil, Ptr("A")}, v \in Values}

\* the arguments of BuildTxOpts: value, nonce, gasPrice
OptsArgs == [value : {Nil, Ptr(1)}, nonce : {Nil, Ptr(0), Ptr(3)},
             gasPrice : {Nil, Ptr(-1), Ptr(4)}]

CallGetChainID(p) == Call(p, "GetChainID", NoArgs, NoLoc)
CallSignTx(p) ==
    \E tx \in Txs : Call(p, "SignTx", [tx |-> tx], [NoLoc EXCEPT !.tx = tx])
CallBuildTxOpts(p) == \E a \in OptsArgs : Call(p, "BuildTxOpts", a, NoLoc)

\* &types.Transaction{}: a transaction with nothing in it
EmptyTransaction == Ptr([inner |-> Nil])

SignTxFails_Continue(p, err) ==
    /\ pc' = [pc EXCEPT ![p] = "send"]
    /\ UNCHANGED ret
\* GetChainID returns (nil, err) and its caller returns the error with no
\* value; SendTx returns ([32]byte{}, err) on an error of SignTx.
SignTxFails(p, err) ==
    Return(p, [NoRet EXCEPT !.err = err])

\* where the caller of GetChainID goes on with the chain identity
AfterChainID(o) == IF o = "BuildTxOpts" THEN "opts_price" ELSE "sign"

\* GetChainID returns (c, nil) to the method that called it.
GotChainID(p, c) ==
    IF op[p] = "GetChainID"
    THEN Return(p, [NoRet EXCEPT !.chainId = c]) /\ UNCHANGED loc
    ELSE /\ loc' = [loc EXCEPT ![p].chainId = c]
         /\ pc' = [pc EXCEPT ![p] = AfterChainID(op[p])]
         /\ UNCHANGED ret

GetChainID_Check_NoCache(p) ==
    /\ pc[p] = "chainid"
    /\ pc' = [pc EXCEPT ![p] = "chainid_reply"]
    /\ UNCHANGED <<op, args, loc, log, ret, calls, chainId, chainHist,
                   nodeNonce>>
\* GetChainID: if p.chainId == nil, ask the node; else go on to the return.
GetChainID_Check(p) ==
    /\ pc[p] = "chainid"
    /\ pc' = [pc EXCEPT ![p] = IF chainId = Nil THEN "chainid_reply"
                                ELSE "chainid_return"]
    /\ UNCHANGED <<op, args, loc, log, ret, calls, chainId, chainHist,
                   nodeNonce>>

GetChainID_Reply_CachesFailure(p) ==
    /\ pc[p] = "chainid_reply"
    /\ \E r \in ChainID :
         /\ Logged(p, "ChainID", <<>>, r)
         /\ chainHist' = [chainHist EXCEPT !.asked = Append(@, r)]
         /\ IF r.err # NoErr
            THEN /\ SignTxFails(p, r.err)
                 /\ chainId' = Ptr(0)
                 /\ UNCHANGED loc
            ELSE /\ chainId' = r.val
                 /\ pc' = [pc EXCEPT ![p] = "chainid_return"]
                 /\ UNCHANGED <<loc, ret>>
    /\ UNCHANGED <<op, args, calls, nodeNonce>>
GetChainID_Reply_NoStore(p) ==
    /\ pc[p] = "chainid_reply"
    /\ \E r \in ChainID :
         /\ Logged(p, "ChainID", <<>>, r)
         /\ IF r.err # NoErr
            THEN /\ SignTxFails(p, r.err)
                 /\ chainHist' = [chainHist EXCEPT !.asked = Append(@, r)]
                 /\ UNCHANGED <<loc, chainId>>
            ELSE /\ UNCHANGED chainId
                 /\ chainHist' = [chainHist EXCEPT
                                    !.asked = Append(@, r),
                                    !.got = Append(@, r.val)]
                 /\ GotChainID(p, r.val)
    /\ UNCHANGED <<op, args, calls, nodeNonce>>
\* GetChainID: the answer arrives; an error is returned, a value is stored
\* in p.chainId.
GetChainID_Reply(p) ==
    /\ pc[p] = "chainid_reply"
    /\ \E r \in ChainID :
         /\ Logged(p, "ChainID", <<>>, r)
         /\ chainHist' = [chainHist EXCEPT !.asked = Append(@, r)]
         /\ IF r.err # NoErr
            THEN /\ SignTxFails(p, r.err)
                 /\ UNCHANGED <<loc, chainId>>
            ELSE /\ chainId' = r.val
                 /\ pc' = [pc EXCEPT ![p] = "chainid_return"]
                 /\ UNCHANGED <<loc, ret>>
    /\ UNCHANGED <<op, args, calls, nodeNonce>>

\* GetChainID: return p.chainId, nil.  The field is read again here, with no
\* lock: the value returned is the one the Provider holds at this moment.
GetChainID_Return(p) ==
    /\ pc[p] = "chainid_return"
    /\ chainHist' = [chainHist EXCEPT !.got = Append(@, chainId)]
    /\ GotChainID(p, chainId)
    /\ UNCHANGED <<op, args, log, calls, chainId, nodeNonce>>

NewLondonSigner_Homestead(c) == Ptr(0)
\* types.NewLondonSigner(chainId): the signer of a chain identity
NewLondonSigner(c) == c

\* types.Sender(signer, tx): the address of the key that signed tx, when the
\* signature is one for the signer's chain identity or is bound to no chain
\* (identity 0, as signed before EIP-155); an error otherwise.
Sender(signer, tx) ==
    IF Deref(tx).chainId = 0 \/ Deref(tx).chainId = Deref(signer)
    THEN [val |-> Deref(tx).signer, err |-> NoErr]
    ELSE [val |-> "", err |-> "ErrInvalidChainId"]

\* Provider.GetFromAddress: the sender under the transaction's own identity
GetFromAddress(tx) == Sender(NewLondonSigner(Ptr(Deref(tx).chainId)), tx)

SignTx_Sign_NilOnError(p) ==
    /\ pc[p] = "sign"
    /\ \E r \in TypesSignTx(loc[p].tx, NewLondonSigner(loc[p].chainId)) :
         /\ Logged(p, "SignTx", <<loc[p].tx, loc[p].chainId>>, r)
         /\ IF r.err # NoErr
            THEN SignTxFails(p, r.err) /\ UNCHANGED loc
            ELSE IF op[p] = "SignTx"
            THEN Return(p, [NoRet EXCEPT !.tx = r.val]) /\ UNCHANGED loc
            ELSE /\ loc' = [loc EXCEPT ![p].signedTx = r.val]
                 /\ pc' = [pc EXCEPT ![p] = "send"]
                 /\ UNCHANGED ret
    /\ UNCHANGED <<op, args, calls, chainId, chainHist, nodeNonce>>
SignTx_Sign_ChecksRecipient(p) ==
    /\ pc[p] = "sign"
    /\ IF Deref(loc[p].tx).To = Nil
       THEN /\ Return(p, [NoRet EXCEPT !.err = "errNoRecipient"])
            /\ UNCHANGED <<loc, log>>
       ELSE \E r \in TypesSignTx(loc[p].tx, NewLondonSigner(loc[p].chainId)) :
              /\ Logged(p, "SignTx", <<loc[p].tx, loc[p].chainId>>, r)
              /\ IF r.err # NoErr
                 THEN /\ IF op[p] = "SignTx"
                         THEN Return(p, [NoRet EXCEPT !.tx = EmptyTransaction,
                                                      !.err = r.err])
                         ELSE SignTxFails(p, r.err)
                      /\ UNCHANGED loc
                 ELSE IF op[p] = "SignTx"
                 THEN Return(p, [NoRet EXCEPT !.tx = r.val]) /\ UNCHANGED loc
                 ELSE /\ loc' = [loc EXCEPT ![p].signedTx = r.val]
                      /\ pc' = [pc EXCEPT ![p] = "send"]
                      /\ UNCHANGED ret
    /\ UNCHANGED <<op, args, calls, chainId, chainHist, nodeNonce>>
\* signer := types.NewLondonSigner(chainId); signedTx, err := types.SignTx(...):
\* SignTx returns (&types.Transaction{}, err) or (signedTx, nil)
SignTx_Sign(p) ==
    /\ pc[p] = "sign"
    /\ \E r \in TypesSignTx(loc[p].tx, NewLondonSigner(loc[p].chainId)) :
         /\ Logged(p, "SignTx", <<loc[p].tx, loc[p].chainId>>, r)
         /\ IF r.err # NoErr
            THEN /\ IF op[p] = "SignTx"
                    THEN Return(p, [NoRet EXCEPT !.tx = EmptyTransaction,
                                                 !.err = r.err])
                    ELSE SignTxFails(p, r.err)
                 /\ UNCHANGED loc
            ELSE IF op[p] = "SignTx"
            THEN Return(p, [NoRet EXCEPT !.tx = r.val]) /\ UNCHANGED loc
            ELSE /\ loc' = [loc EXCEPT ![p].signedTx = r.val]
                 /\ pc' = [pc EXCEPT ![p] = "send"]
                 /\ UNCHANGED ret
    /\ UNCHANGED <<op, args, calls, chainId, chainHist, nodeNonce>>

\* BuildTxOpts after GetChainID: the options of the key and the chain identity,
\* txOpts.Value = value, then the gas price: the caller's when it is positive,
\* the node's suggestion otherwise.
BuildTxOpts_GasPrice(p) ==
    /\ pc[p] = "opts_price"
    /\ LET txOpts == [From |-> WalletAddress, ChainId |-> loc[p].chainId,
                      Value |-> args[p].value, GasPrice |-> Nil,
                      Nonce |-> Nil]
       IN  IF args[p].gasPrice # Nil /\ Sign(Deref(args[p].gasPrice)) = 1
           THEN /\ loc' = [loc EXCEPT ![p].txOpts =
                             Ptr([txOpts EXCEPT !.GasPrice = args[p].gasPrice])]
                /\ pc' = [pc EXCEPT ![p] = "opts_nonce"]
                /\ UNCHANGED <<log, ret>>
           ELSE \E r \in GetSuggestGasPrice :
                  /\ Logged(p, "GetSuggestGasPrice", <<>>, r)
                  /\ IF r.err # NoErr
                     THEN /\ Return(p, [NoRet EXCEPT !.err = r.err])
                          /\ UNCHANGED loc
                     ELSE /\ loc' = [loc EXCEPT ![p].txOpts =
                                       Ptr([txOpts EXCEPT !.GasPrice = r.val])]
                          /\ pc' = [pc EXCEPT ![p] = "opts_nonce"]
                          /\ UNCHANGED ret
    /\ UNCHANGED <<op, args, calls, chainId, chainHist, nodeNonce>>

\* BuildTxOpts: the nonce, the caller's when it is positive, the account's
\* pending nonce otherwise; return txOpts, nil.
BuildTxOpts_Nonce(p) ==
    /\ pc[p] = "opts_nonce"
    /\ IF args[p].nonce # Nil /\ Sign(Deref(args[p].nonce)) > 0
       THEN /\ Return(p, [NoRet EXCEPT !.txOpts =
                  Ptr([Deref(loc[p].txOpts) EXCEPT !.Nonce = args[p].nonce])])
            /\ UNCHANGED log
       ELSE \E r \in GetNonce :
              /\ Logged(p, "GetNonce", WalletAddress, r)
              /\ IF r.err # NoErr
                 THEN Return(p, [NoRet EXCEPT !.err = r.err])
                 ELSE Return(p, [NoRet EXCEPT !.txOpts =
                        Ptr([Deref(loc[p].txOpts) EXCEPT !.Nonce = Ptr(r.val)])])
    /\ UNCHANGED <<op, args, loc, calls, chainId, chainHist, nodeNonce>>

\* the signed transactions a caller hands to SendSignedTx
SignedTxs == {SignedTx(tx, Ptr(c)) : tx \in Txs, c \in ChainIds}

CallSendSignedTx(p) ==
    \E signedTx \in SignedTxs :
        Call(p, "SendSignedTx", [signedTx |-> signedTx],
             [NoLoc EXCEPT !.signedTx = signedTx])

SendSignedTx_IgnoresError(p) ==
    /\ pc[p] = "send"
    /\ \E r \in SendTransaction(loc[p].signedTx) :
         /\ Logged(p, "SendTransaction", loc[p].signedTx, r)
         /\ nodeNonce' = IF r.err = NoErr
                         THEN PendingNonceAfter(loc[p].signedTx)
                         ELSE nodeNonce
         /\ IF op[p] = "SendTxAndWait"
            THEN /\ loc' = [loc EXCEPT ![p].txHash = Hash(loc[p].signedTx)]
                 /\ pc' = [pc EXCEPT ![p] = "wait"]
                 /\ UNCHANGED ret
            ELSE /\ Return(p, [NoRet EXCEPT !.hash = Hash(loc[p].signedTx)])
                 /\ UNCHANGED loc
    /\ UNCHANGED <<op, args, calls, chainId, chainHist>>
\* SendSignedTx: SendTransaction(ctx, signedTx); ([32]byte{}, err) when the
\* node rejects, (signedTx.Hash(), nil) when it accepts.  SendTx returns the
\* same, SendTxAndWait returns (nil, err) or goes on to wait with the hash.
SendSignedTx(p) ==
    /\ pc[p] = "send"
    /\ \E r \in SendTransaction(loc[p].signedTx) :
         /\ Logged(p, "SendTransaction", loc[p].signedTx, r)
         /\ IF r.err # NoErr
            THEN /\ Return(p, [NoRet EXCEPT !.err = r.err])
                 /\ UNCHANGED <<loc, nodeNonce>>
            ELSE /\ nodeNonce' = PendingNonceAfter(loc[p].signedTx)
                 /\ IF op[p] = "SendTxAndWait"
                    THEN /\ loc' = [loc EXCEPT ![p].txHash =
                                      Hash(loc[p].signedTx)]
                         /\ pc' = [pc EXCEPT ![p] = "wait"]
                         /\ UNCHANGED ret
                    ELSE /\ Return(p, [NoRet EXCEPT !.hash =
                                         Hash(loc[p].signedTx)])
                         /\ UNCHANGED loc
    /\ UNCHANGED <<op, args, calls, chainId, chainHist>>

\* Other transactions of the account reach the node: its pending nonce grows.
NodeNonceGrows ==
    /\ nodeNonce < MaxNonce
    /\ nodeNonce' = nodeNonce + 1
    /\ UNCHANGED <<pc, op, args, loc, log, ret, calls, chainId, chainHist>>

----------------------------------------------------------------------------
(* Kit.WaitForReceipt / Kit.WaitForReceiptWithInterval                     *)
(*                                                                         *)
(* Time is counted in units of which Second make one second.  The wait     *)
(* blocks in its select and in the receipt query only: time passes while   *)
(* the select has no ready case and while a query is in flight.  A select  *)
(* with several ready cases takes any of them.                             *)

\* units of model time in time.Second
Second == 2
\* the largest timeout and interval a caller passes, the last query that
\* still answers "not found"
MaxTimeout  == 7
MaxInterval == 3
MaxN        == 3

MaxTime   == MaxTimeout + 1
Timeouts  == -1 .. MaxTimeout
Intervals == -1 .. MaxInterval
TxHashes  == {Hash(Ptr("t1")), Hash(Ptr("t2"))}

DeadlineExceeded == "context.DeadlineExceeded"
Canceled         == "context.Canceled"
NotFound         == "ethereum.NotFound"
ErrRPC           == "errRPC"

VARIABLES
    wpc,         \* "idle", "select" (in the select), "query", "done"
    wargs,       \* the arguments of the wait: txHash, timeout, interval
    now,         \* time since the wait was called
    period,      \* the period of the ticker
    tickerC,     \* ticks waiting in ticker.C (a channel of capacity 1)
    ticksFired,  \* ticks the ticker has fired
    parentErr,   \* Err() of the caller's context
    ctxErr,      \* Err() of the context derived with the timeout
    foundAt,     \* the node has the receipt from this query on
    queries,     \* the receipt queries issued, in order: the hash asked
                 \* for and the time of the call
    replies,     \* the errors of the answered queries, in order
    wret         \* what the wait returned

varsWait == <<wpc, wargs, now, period, tickerC, ticksFired, parentErr, ctxErr,
              foundAt, queries, replies, wret>>

vars == <<pc, op, args, loc, log, ret, calls, chainId, chainHist, nodeNonce,
          wpc, wargs, now, period, tickerC, ticksFired, parentErr, ctxErr,
          foundAt, queries, replies, wret, conv>>

NoWRet == [receipt |-> Nil, err |-> "pending"]

InitWait ==
    /\ wpc = "idle"
    /\ wargs = [txHash |-> ZeroHash, timeout |-> 0, interval |-> 0]
    /\ now = 0
    /\ period = Second
    /\ tickerC = 0
    /\ ticksFired = 0
    /\ parentErr = NoErr
    /\ ctxErr = NoErr
    /\ foundAt = 1
    /\ queries = <<>>
    /\ replies = <<>>
    /\ wret = NoWRet

DefaultWaitInterval == Second

ClampInterval_NonPositiveOnly(interval) ==
    IF interval <= 0 THEN DefaultWaitInterval ELSE interval
ClampInterval_AlwaysDefault(interval) == DefaultWaitInterval
\* if interval < time.Second { interval = DefaultWaitInterval }
ClampInterval(interval) ==
    IF interval < Second THEN DefaultWaitInterval ELSE interval

\* context.WithTimeout(ctx, timeout): done at once when the parent is done or
\* the timeout is not positive.
WithTimeout(parent, timeout) ==
    IF parent # NoErr THEN parent
    ELSE IF timeout <= 0 THEN DeadlineExceeded ELSE NoErr

\* The types.Receipt of a transaction.
Receipt(txHash) == Ptr([TxHash |-> txHash])

\* Provider.GetTransactionReceipt(ctx, txHash): the receipt once the node has
\* it, "not found" before, an RPC failure, or the context's error when the
\* context is done.
GetTransactionReceipt(ctx, txHash) ==
    {IF Len(queries) >= foundAt
        THEN [receipt |-> Receipt(txHash), err |-> NoErr]
        ELSE [receipt |-> Nil, err |-> NotFound]}
    \cup {[receipt |-> Nil, err |-> ErrRPC]}
    \cup (IF ctx # NoErr THEN {[receipt |-> Nil, err |-> ctx]} ELSE {})

\* if err == nil && receipt != nil
Found(r) == r.err = NoErr /\ r.receipt # Nil

WaitReturn_Break(receipt, err) ==
    /\ wret' = [receipt |-> receipt, err |-> err]
    /\ wpc' = "select"
\* A return statement of the wait.
WaitReturn(receipt, err) ==
    /\ wret' = [receipt |-> receipt, err |-> err]
    /\ wpc' = "done"

\* WaitForReceiptWithInterval(ctx, h, t, i) up to its select.
StartWait(h, t, i) ==
    /\ wpc = "idle"
    /\ wargs' = [txHash |-> h, timeout |-> t, interval |-> i]
    /\ period' = ClampInterval(i)
    \* the caller's context may be done already
    /\ parentErr' \in {NoErr, Canceled}
    /\ ctxErr' = WithTimeout(parentErr', t)
    \* the node has the receipt from some query on
    /\ foundAt' \in 1 .. MaxN
    /\ wpc' = "select"
    /\ UNCHANGED <<now, tickerC, ticksFired, queries, replies, wret>>

\* A caller calls WaitForReceiptWithInterval; WaitForReceipt is the call with
\* interval = DefaultWaitInterval.
WaitForReceiptWithInterval ==
    /\ \E h \in TxHashes, t \in Timeouts, i \in Intervals : StartWait(h, t, i)
    /\ UNCHANGED <<varsTx, varsConv>>

\* The caller cancels its context.
Cancel ==
    /\ wpc # "idle"
    /\ parentErr = NoErr
    /\ parentErr' = Canceled
    /\ ctxErr' = IF ctxErr = NoErr THEN Canceled ELSE ctxErr
    /\ UNCHANGED <<wpc, wargs, now, period, tickerC, ticksFired, foundAt,
                   queries, replies, wret>>
    /\ UNCHANGED <<varsTx, varsConv>>

Advance_DoneUnobserved ==
    /\ \/ wpc = "query"
       \/ wpc = "select" /\ tickerC = 0
    /\ now < MaxTime
    /\ now' = now + 1
    /\ IF now' % period = 0
       THEN tickerC' = 1 /\ ticksFired' = ticksFired + 1
       ELSE UNCHANGED <<tickerC, ticksFired>>
    /\ ctxErr' = IF ctxErr = NoErr /\ now' >= wargs.timeout
                 THEN DeadlineExceeded ELSE ctxErr
    /\ UNCHANGED <<wpc, wargs, period, parentErr, foundAt, queries, replies,
                   wret>>
    /\ UNCHANGED <<varsTx, varsConv>>
Advance_NoDeadline ==
    /\ \/ wpc = "query"
       \/ wpc = "select" /\ tickerC = 0 /\ ctxErr = NoErr
    /\ now < MaxTime
    /\ now' = now + 1
    /\ IF now' % period = 0
       THEN tickerC' = 1 /\ ticksFired' = ticksFired + 1
       ELSE UNCHANGED <<tickerC, ticksFired>>
    /\ UNCHANGED <<wpc, wargs, period, parentErr, ctxErr, foundAt, queries,
                   replies, wret>>
    /\ UNCHANGED <<varsTx, varsConv>>
\* One unit of time passes: the ticker fires on its period (a tick is dropped
\* when ticker.C is full), the deadline of the context passes.
Advance ==
    /\ \/ wpc = "query"
       \/ wpc = "select" /\ tickerC = 0 /\ ctxErr = NoErr
    /\ now < MaxTime
    /\ now' = now + 1
    /\ IF now' % period = 0
       THEN tickerC' = 1 /\ ticksFired' = ticksFired + 1
       ELSE UNCHANGED <<tickerC, ticksFired>>
    /\ ctxErr' = IF ctxErr = NoErr /\ now' >= wargs.timeout
                 THEN DeadlineExceeded ELSE ctxErr
    /\ UNCHANGED <<wpc, wargs, period, parentErr, foundAt, queries, replies,
                   wret>>
    /\ UNCHANGED <<varsTx, varsConv>>

\* case <-ctx.Done(): return nil, ctx.Err()
Select_Done ==
    /\ wpc = "select"
    /\ ctxErr # NoErr
    /\ WaitReturn(Nil, ctxErr)
    /\ UNCHANGED <<wargs, now, period, tickerC, ticksFired, parentErr, ctxErr,
                   foundAt, queries, replies>>
    /\ UNCHANGED <<varsTx, varsConv>>

Select_Tick_Default ==
    /\ wpc = "select"
    /\ tickerC' = 0
    /\ queries' = Append(queries, [txHash |-> wargs.txHash, at |-> now])
    /\ wpc' = "query"
    /\ UNCHANGED <<wargs, now, period, ticksFired, parentErr, ctxErr, foundAt,
                   replies, wret>>
    /\ UNCHANGED <<varsTx, varsConv>>
\* case <-ticker.C: k.GetTransactionReceipt(ctx, txHash) is called
Select_Tick ==
    /\ wpc = "select"
    /\ tickerC = 1
    /\ tickerC' = 0
    /\ queries' = Append(queries, [txHash |-> wargs.txHash, at |-> now])
    /\ wpc' = "query"
    /\ UNCHANGED <<wargs, now, period, ticksFired, parentErr, ctxErr, foundAt,
                   replies, wret>>
    /\ UNCHANGED <<varsTx, varsConv>>

Query_Reply_ReturnsFailure ==
    /\ wpc = "query"
    /\ \E r \in GetTransactionReceipt(ctxErr, wargs.txHash) :
         /\ replies' = Append(replies, r.err)
         /\ IF Found(r)
            THEN WaitReturn(r.receipt, NoErr)
            ELSE IF r.err # NotFound
            THEN WaitReturn(Nil, r.err)
            ELSE wpc' = "select" /\ UNCHANGED wret
    /\ UNCHANGED <<wargs, now, period, tickerC, ticksFired, parentErr, ctxErr,
                   foundAt, queries>>
    /\ UNCHANGED <<varsTx, varsConv>>
\* The query answers: a receipt is returned, anything else goes round the loop.
Query_Reply ==
    /\ wpc = "query"
    /\ \E r \in GetTransactionReceipt(ctxErr, wargs.txHash) :
         /\ replies' = Append(replies, r.err)
         /\ IF Found(r)
            THEN WaitReturn(r.receipt, NoErr)
            ELSE wpc' = "select" /\ UNCHANGED wret
    /\ UNCHANGED <<wargs, now, period, tickerC, ticksFired, parentErr, ctxErr,
                   foundAt, queries>>
    /\ UNCHANGED <<varsTx, varsConv>>

----------------------------------------------------------------------------
(* Kit.SendTxAndWait *)

\* the arguments of SendTxAndWait: those of SendTx and the timeout
KitTimeouts == {0, Second + 1}
KitArgs == [to : {"A"}, nonce : Nonces, gasLimit : {7},
            gasPrice : {Nil, Ptr(4)}, value : {Ptr(1)}, data : {<<>>},
            timeout : KitTimeouts]

CallSendTxAndWait(p) ==
    \E a \in KitArgs : Call(p, "SendTxAndWait", a, TxLocals(a))

SendTxAndWait_Wait_ZeroHash(p) ==
    /\ pc[p] = "wait"
    /\ StartWait(ZeroHash, args[p].timeout, DefaultWaitInterval)
    /\ pc' = [pc EXCEPT ![p] = "waiting"]
    /\ UNCHANGED <<op, args, loc, log, ret, calls, chainId, chainHist,
                   nodeNonce>>
    /\ UNCHANGED varsConv
\* return k.WaitForReceipt(ctx, txHash, timeout): the wait begins
SendTxAndWait_Wait(p) ==
    /\ pc[p] = "wait"
    /\ StartWait(loc[p].txHash, args[p].timeout, DefaultWaitInterval)
    /\ pc' = [pc EXCEPT ![p] = "waiting"]
    /\ UNCHANGED <<op, args, loc, log, ret, calls, chainId, chainHist,
                   nodeNonce>>
    /\ UNCHANGED varsConv

\* return k.WaitForReceipt(ctx, txHash, timeout): the wait has returned
SendTxAndWait_Return(p) ==
    /\ pc[p] = "waiting"
    /\ wpc = "done"
    /\ Return(p, [NoRet EXCEPT !.receipt = wret.receipt, !.err = wret.err])
    /\ UNCHANGED <<op, args, loc, log, calls, chainId, chainHist, nodeNonce>>
    /\ UNCHANGED <<varsWait, varsConv>>

----------------------------------------------------------------------------
(* The numeric converter: ToDecimal and ToWei                              *)
(*                                                                         *)
(* A number of arbitrary size is the sequence of its decimal digits, most  *)
(* significant first and zero the empty sequence (the nat of a big.Int);   *)
(* a string is the sequence of its characters.  A big.Int is a sign and a  *)
(* magnitude, a decimal.Decimal a big.Int coefficient and a power of ten.  *)

\* the largest scale (decimals) a caller passes: the native coin has 18
MaxScale == 18
Scales == 0 .. MaxScale

DigitChars == <<"0", "1", "2", "3", "4", "5", "6", "7", "8", "9">>
IsDigit(c) == \E i \in 1 .. 10 : DigitChars[i] = c
DigitOf(c) == (CHOOSE i \in 1 .. 10 : DigitChars[i] = c) - 1
CharOf(d) == DigitChars[d + 1]

Zeros(n) == [i \in 1 .. n |-> 0]

\* nat.norm: no leading zeros
RECURSIVE Norm(_)
Norm(ds) ==
    IF ds = <<>> THEN <<>>
    ELSE IF ds[1] = 0 THEN Norm(Tail(ds)) ELSE ds

\* the magnitude plus one
RECURSIVE Inc(_)
Inc(ds) ==
    IF ds = <<>> THEN <<1>>
    ELSE LET n == Len(ds)
         IN  IF ds[n] < 9 THEN [ds EXCEPT ![n] = ds[n] + 1]
             ELSE Inc(SubSeq(ds, 1, n - 1)) \o <<0>>

\* a big.Int: zero has no sign
BigInt(neg, abs) == [neg |-> neg /\ Norm(abs) # <<>>, abs |-> Norm(abs)]

\* the digits a scan of a number reads: up to the first other character
RECURSIVE DigitPrefixLen(_)
DigitPrefixLen(s) ==
    IF s = <<>> \/ ~IsDigit(s[1]) THEN 0 ELSE 1 + DigitPrefixLen(Tail(s))

\* (*big.Int).SetString(s, 10) on a new big.Int: an optional sign, then
\* digits.  It fails when there is no digit or when a character is left
\* over, and the receiver then holds what the scan had read: the digits
\* before the first character that is not one.
SetString(s) ==
    LET signed == s # <<>> /\ s[1] \in {"+", "-"}
        body   == IF signed THEN Tail(s) ELSE s
        n      == DigitPrefixLen(body)
    IN  [z  |-> BigInt(signed /\ s[1] = "-", [i \in 1 .. n |-> DigitOf(body[i])]),
         ok |-> n > 0 /\ n = Len(body)]

\* (*big.Int).String()
BigIntString(z) ==
    (IF z.neg THEN <<"-">> ELSE <<>>)
    \o (IF z.abs = <<>> THEN <<"0">>
        ELSE [i \in 1 .. Len(z.abs) |-> CharOf(z.abs[i])])

\* decimal.Decimal{}
ZeroDecimal == [value |-> BigInt(FALSE, <<>>), exp |-> 0]

\* decimal.NewFromString(s): the digits around at most one point are the
\* coefficient, the digits after the point give the exponent; the zero
\* Decimal and an error for anything else (a caller's string in exponent
\* notation is not among the inputs).
NewFromString(s) ==
    LET dots == {i \in 1 .. Len(s) : s[i] = "."}
        p    == CHOOSE i \in dots : TRUE
        digs == IF dots = {} THEN s
                ELSE SubSeq(s, 1, p - 1) \o SubSeq(s, p + 1, Len(s))
        r    == SetString(digs)
    IN  IF Cardinality(dots) > 1 \/ ~r.ok
        THEN [val |-> ZeroDecimal, err |-> "can't convert to decimal"]
        ELSE [val |-> [value |-> r.z,
                       exp |-> IF dots = {} THEN 0 ELSE p - Len(s)],
              err |-> NoErr]

\* A float64 that is a whole number or a whole number and a half, below
\* 2^54 in magnitude: the floating-point amounts the callers pass.
Float(neg, whole, half) == [neg |-> neg, whole |-> Norm(whole), half |-> half]

\* decimal.NewFromFloat(f): the shortest decimal that reads back as f, which
\* for these floats is the value of f itself.
NewFromFloat(f) ==
    IF f.half THEN [value |-> BigInt(f.neg, f.whole \o <<5>>), exp |-> -1]
    ELSE [value |-> BigInt(f.neg, f.whole), exp |-> 0]

\* 2^53: up to it every integer is a float64
TwoTo53 == <<9, 0, 0, 7, 1, 9, 9, 2, 5, 4, 7, 4, 0, 9, 9, 2>>

\* a <= b for magnitudes of the same length
RECURSIVE LexLessEq(_, _)
LexLessEq(a, b) ==
    \/ a = <<>>
    \/ a[1] < b[1]
    \/ a[1] = b[1] /\ LexLessEq(Tail(a), Tail(b))

LessEq(a, b) == Len(a) < Len(b) \/ (Len(a) = Len(b) /\ LexLessEq(a, b))

\* the remainder modulo 4 of a magnitude of two digits or more
Mod4(a) == (10 * a[Len(a) - 1] + a[Len(a)]) % 4

\* float64(v) of an int or int64 below 2^54 in magnitude: exact up to 2^53;
\* above it only the even integers are float64 values, and an odd one goes
\* to the neighbour with the even mantissa (round half to even).
Float64(v) ==
    LET a    == v.abs
        n    == Len(a)
        down == [a EXCEPT ![n] = a[n] - 1]
    IN  Float(v.neg,
              IF LessEq(a, TwoTo53) \/ a[n] % 2 = 0 THEN a
              ELSE IF Mod4(down) = 0 THEN down ELSE Inc(a),
              FALSE)

\* decimal.NewFromFloat(float64(10)).Pow(decimal.NewFromFloat(float64(decimals)))
TenPow(decimals) == [value |-> BigInt(FALSE, <<1>>), exp |-> decimals]

\* d.Mul(mul) for mul a power of ten: the coefficients are multiplied (the
\* coefficient of mul is 1), the exponents added.  Nothing is rounded.
Mul(d, mul) == [value |-> d.value, exp |-> d.exp + mul.exp]

\* decimal.DivisionPrecision: the decimal places Div keeps
DivisionPrecision == 16

\* d.Div(mul) for mul a power of ten, which is
\* d.DivRound(mul, DivisionPrecision): the quotient is cut after
\* DivisionPrecision decimal places and rounded half away from zero.
Div(d, mul) ==
    LET e     == d.exp - mul.exp
        abs   == d.value.abs
        n     == Len(abs)
        k     == (0 - e) - DivisionPrecision
        kept  == IF k >= n THEN <<>> ELSE SubSeq(abs, 1, n - k)
        first == IF k > n THEN 0 ELSE abs[n - k + 1]
    IN  IF k <= 0 THEN [value |-> d.value, exp |-> e]
        ELSE [value |-> BigInt(d.value.neg,
                               IF first >= 5 THEN Inc(kept) ELSE kept),
              exp |-> 0 - DivisionPrecision]

\* the digits without their trailing zeros
RECURSIVE TrimRight(_)
TrimRight(ds) ==
    IF ds = <<>> THEN <<>>
    ELSE IF ds[Len(ds)] = 0 THEN TrimRight(SubSeq(ds, 1, Len(ds) - 1))
    ELSE ds

Chars(ds) == [i \in 1 .. Len(ds) |-> CharOf(ds[i])]

\* Decimal.String(): the integer part, then a point and the fractional
\* digits when some are left once the trailing zeros are dropped.
String(d) ==
    LET abs  == d.value.abs
        n    == Len(abs)
        f    == 0 - d.exp
        int  == IF d.exp >= 0
                THEN (IF abs = <<>> THEN <<>> ELSE abs \o Zeros(d.exp))
                ELSE IF n > f THEN SubSeq(abs, 1, n - f) ELSE <<>>
        frac == IF d.exp >= 0 THEN <<>>
                ELSE IF n >= f THEN TrimRight(SubSeq(abs, n - f + 1, n))
                ELSE TrimRight(Zeros(f - n) \o abs)
    IN  (IF d.value.neg THEN <<"-">> ELSE <<>>)
        \o (IF int = <<>> THEN <<"0">> ELSE Chars(int))
        \o (IF frac = <<>> THEN <<>> ELSE <<".">> \o Chars(frac))

\* ToDecimal(iValue, decimals)
ToDecimal(iValue, decimals) ==
    LET value == IF iValue.type = "string" THEN SetString(iValue.v).z
                 ELSE iValue.v
        mul   == TenPow(decimals)
        num   == NewFromString(BigIntString(value)).val
    IN  Div(num, mul)

\* ToWei(iAmount, decimals): the result's string is parsed as an integer, and
\* the outcome of the parse is not looked at
ToWei(iAmount, decimals) ==
    LET amount == IF iAmount.type = "string" THEN NewFromString(iAmount.v).val
                  ELSE IF iAmount.type = "float64" THEN NewFromFloat(iAmount.v)
                  ELSE IF iAmount.type = "int64"
                       THEN NewFromFloat(Float64(iAmount.v))
                  ELSE iAmount.v
        mul    == TenPow(decimals)
        result == Mul(amount, mul)
    IN  SetString(String(result)).z

\* the arguments of the conversions
Str(v)  == [type |-> "string", v |-> v]
Big(v)  == [type |-> "*big.Int", v |-> v]
F64(v)  == [type |-> "float64", v |-> v]
I64(v)  == [type |-> "int64", v |-> v]
Dec(v)  == [type |-> "decimal.Decimal", v |-> v]

\* base units: small amounts, the powers of ten, and half of 10^MaxScale
BaseUnits ==
    {BigInt(FALSE, ds) : ds \in {<<>>, <<1>>, <<5>>, <<1, 5>>, <<1, 2, 3, 4>>,
                                  <<5>> \o Zeros(MaxScale - 1)}}
    \cup {BigInt(FALSE, <<1>> \o Zeros(k)) : k \in Scales}

BaseUnitStrings == {<<"0">>, <<"1">>, <<"1", "5">>, <<"1", ".", "5">>}

AmountStrings ==
    {<<"0">>, <<"1">>, <<"1", "0", "0">>, <<"0", ".", "5">>,
     <<"1", ".", "5">>, <<"0", ".", "1">>, <<"1", ".", "2", "5">>,
     <<"-", "1", ".", "5">>, <<".", "5">>, <<"1", ".", "2", ".", "3">>,
     <<"0", ".">> \o Chars(Zeros(MaxScale - 1)) \o <<"1">>}

AmountFloats ==
    {Float(FALSE, <<>>, FALSE), Float(FALSE, <<1>>, FALSE),
     Float(FALSE, <<>>, TRUE), Float(FALSE, <<1>>, TRUE),
     Float(FALSE, <<1, 0, 0>>, FALSE)}

AmountInts ==
    {BigInt(FALSE, <<>>), BigInt(FALSE, <<1>>), BigInt(FALSE, <<1, 0, 0>>),
     BigInt(FALSE, TwoTo53), BigInt(FALSE, Inc(TwoTo53)),
     BigInt(TRUE, <<2>>)}

\* a conversion is called and returns
Convert(fn, arg, decimals, result) ==
    [fn |-> fn, arg |-> arg, decimals |-> decimals, result |-> result]

CallToDecimal(iValue, decimals) ==
    /\ conv = <<>>
    /\ conv' = <<Convert("ToDecimal", iValue, decimals,
                         ToDecimal(iValue, decimals))>>
    /\ UNCHANGED <<varsTx, varsWait>>

CallToWei(iAmount, decimals) ==
    /\ conv = <<>>
    /\ conv' = <<Convert("ToWei", iAmount, decimals,
                         ToWei(iAmount, decimals))>>
    /\ UNCHANGED <<varsTx, varsWait>>

ToDecimal_String ==
    \E v \in BaseUnitStrings, s \in Scales : CallToDecimal(Str(v), s)

ToDecimal_BigInt ==
    \E v \in BaseUnits, s \in Scales : CallToDecimal(Big(v), s)

ToWei_String ==
    \E a \in AmountStrings, s \in Scales : CallToWei(Str(a), s)

ToWei_Float64 ==
    \E a \in AmountFloats, s \in Scales : CallToWei(F64(a), s)

ToWei_Int64 ==
    \E a \in AmountInts, s \in Scales : CallToWei(I64(a), s)

\* the Decimal a ToDecimal returned is converted back at the same scale
ToWei_Decimal ==
    /\ Len(conv) = 1
    /\ conv[1].fn = "ToDecimal"
    /\ conv' = Append(conv, Convert("ToWei", Dec(conv[1].result),
                                    conv[1].decimals,
                                    ToWei(Dec(conv[1].result),
                                          conv[1].decimals)))
    /\ UNCHANGED <<varsTx, varsWait>>

\* the *big.Int a ToWei returned is converted back at the same scale
ToDecimal_Back ==
    /\ Len(conv) = 1
    /\ conv[1].fn = "ToWei"
    /\ conv' = Append(conv, Convert("ToDecimal", Big(conv[1].result),
                                    conv[1].decimals,
                                    ToDecimal(Big(conv[1].result),
                                              conv[1].decimals)))
    /\ UNCHANGED <<varsTx, varsWait>>

----------------------------------------------------------------------------
(* Specifications *)

\* A Provider of NewProvider on a fresh account, for the runs that make no
\* use of the Wallet.
InitProvider ==
    /\ InitTx
    /\ chainId = Nil
    /\ nodeNonce = 0

InitConv == conv = <<>>

Init == InitTx /\ InitWait /\ InitConv

\* One caller uses the Wallet: NewTx and SendTx calls, one after the other.
Next ==
    \E p \in Callers :
        \/ CallNewTx(p) /\ UNCHANGED <<varsWait, varsConv>>
        \/ CallSendTx(p) /\ UNCHANGED <<varsWait, varsConv>>
        \/ NewTx_Nonce(p) /\ UNCHANGED <<varsWait, varsConv>>
        \/ NewTx_GasPrice(p) /\ UNCHANGED <<varsWait, varsConv>>
        \/ NewTx_GasLimit(p) /\ UNCHANGED <<varsWait, varsConv>>
        \/ NewTx_Build(p) /\ UNCHANGED <<varsWait, varsConv>>
        \/ GetChainID_Check(p) /\ UNCHANGED <<varsWait, varsConv>>
        \/ GetChainID_Reply(p) /\ UNCHANGED <<varsWait, varsConv>>
        \/ GetChainID_Return(p) /\ UNCHANGED <<varsWait, varsConv>>
        \/ SignTx_Sign(p) /\ UNCHANGED <<varsWait, varsConv>>
        \/ SendSignedTx(p) /\ UNCHANGED <<varsWait, varsConv>>
        \/ Finish(p) /\ UNCHANGED <<varsWait, varsConv>>

Spec == Init /\ [][Next]_vars

\* One wait for a receipt, the clock and the caller's cancellation.
NextWait ==
    \/ WaitForReceiptWithInterval
    \/ Cancel
    \/ Advance
    \/ Select_Done
    \/ Select_Tick
    \/ Query_Reply

\* A Kit over a fresh Provider, before the wait is called.
InitKit == InitProvider /\ InitWait /\ InitConv

SpecWait == InitKit /\ [][NextWait]_vars

\* The wait under fair scheduling: time passes, a query in flight answers,
\* a select with a ready case takes one, and a select that is ready for
\* ctx.Done() again and again takes it in the end (the select of Go picks
\* among its ready cases at random).
SpecWaitFair ==
    /\ InitKit
    /\ [][NextWait]_vars
    /\ WF_vars(Advance)
    /\ WF_vars(Query_Reply)
    /\ WF_vars(Select_Tick)
    /\ SF_vars(Select_Done)

\* One caller uses a Provider and its Wallet through the methods that need the
\* chain identity, one call after the other.
NextChain ==
    \E p \in Callers :
        \/ CallGetChainID(p) /\ UNCHANGED <<varsWait, varsConv>>
        \/ CallSignTx(p) /\ UNCHANGED <<varsWait, varsConv>>
        \/ CallBuildTxOpts(p) /\ UNCHANGED <<varsWait, varsConv>>
        \/ GetChainID_Check(p) /\ UNCHANGED <<varsWait, varsConv>>
        \/ GetChainID_Reply(p) /\ UNCHANGED <<varsWait, varsConv>>
        \/ GetChainID_Return(p) /\ UNCHANGED <<varsWait, varsConv>>
        \/ SignTx_Sign(p) /\ UNCHANGED <<varsWait, varsConv>>
        \/ BuildTxOpts_GasPrice(p) /\ UNCHANGED <<varsWait, varsConv>>
        \/ BuildTxOpts_Nonce(p) /\ UNCHANGED <<varsWait, varsConv>>
        \/ Finish(p) /\ UNCHANGED <<varsWait, varsConv>>

SpecChain == Init /\ [][NextChain]_vars

\* One caller makes one call on a Kit: SendTxAndWait or SendSignedTx.
NextKit ==
    \/ \E p \in Callers :
          \/ CallSendTxAndWait(p) /\ UNCHANGED <<varsWait, varsConv>>
          \/ CallSendSignedTx(p) /\ UNCHANGED <<varsWait, varsConv>>
          \/ NewTx_Nonce(p) /\ UNCHANGED <<varsWait, varsConv>>
          \/ NewTx_GasPrice(p) /\ UNCHANGED <<varsWait, varsConv>>
          \/ NewTx_GasLimit(p) /\ UNCHANGED <<varsWait, varsConv>>
          \/ NewTx_Build(p) /\ UNCHANGED <<varsWait, varsConv>>
          \/ GetChainID_Check(p) /\ UNCHANGED <<varsWait, varsConv>>
          \/ GetChainID_Reply(p) /\ UNCHANGED <<varsWait, varsConv>>
          \/ GetChainID_Return(p) /\ UNCHANGED <<varsWait, varsConv>>
          \/ SignTx_Sign(p) /\ UNCHANGED <<varsWait, varsConv>>
          \/ SendSignedTx(p) /\ UNCHANGED <<varsWait, varsConv>>
          \/ SendTxAndWait_Wait(p)
          \/ SendTxAndWait_Return(p)
    \/ Cancel
    \/ Advance
    \/ Select_Done
    \/ Select_Tick
    \/ Query_Reply

SpecKit == Init /\ [][NextKit]_vars

\* a step of SendTx by caller p
SendTxStep(p) ==
    \/ CallSendTxFromAccount(p)
    \/ NewTx_Nonce(p)
    \/ NewTx_GasPrice(p)
    \/ NewTx_GasLimit(p)
    \/ NewTx_Build(p)
    \/ GetChainID_Check(p)
    \/ GetChainID_Reply(p)
    \/ GetChainID_Return(p)
    \/ SignTx_Sign(p)
    \/ SendSignedTx(p)

\* Two callers each send one transaction from the one Wallet, concurrently:
\* their steps interleave in every order.
NextRace == \E p \in Procs : SendTxStep(p) /\ UNCHANGED <<varsWait, varsConv>>

SpecRace == Init /\ [][NextRace]_vars

\* The two callers send one after the other: the second call begins when the
\* first has returned.  Meanwhile the pending nonce of the account may grow.
NextSeq ==
    \/ \E p \in Procs :
          /\ p = 2 => pc[1] = "done"
          /\ SendTxStep(p)
          /\ UNCHANGED <<varsWait, varsConv>>
    \/ NodeNonceGrows /\ UNCHANGED <<varsWait, varsConv>>

SpecSeq == Init /\ [][NextSeq]_vars

\* Two callers call GetChainID on the one Provider, concurrently: p.chainId
\* is read and written with no lock, and the steps of the two calls
\* interleave in every order.
NextChainRace ==
    \E p \in Procs :
        \/ CallGetChainID(p) /\ UNCHANGED <<varsWait, varsConv>>
        \/ GetChainID_Check(p) /\ UNCHANGED <<varsWait, varsConv>>
        \/ GetChainID_Reply(p) /\ UNCHANGED <<varsWait, varsConv>>
        \/ GetChainID_Return(p) /\ UNCHANGED <<varsWait, varsConv>>
        \/ Finish(p) /\ UNCHANGED <<varsWait, varsConv>>

SpecChainRace == InitKit /\ [][NextChainRace]_vars

\* A caller converts an amount, and may convert the result back at the same
\* scale.
NextConv ==
    \/ ToDecimal_String
    \/ ToDecimal_BigInt
    \/ ToWei_String
    \/ ToWei_Float64
    \/ ToWei_Int64
    \/ ToWei_Decimal
    \/ ToDecimal_Back

SpecConv == InitKit /\ [][NextConv]_vars

----------------------------------------------------------------------------
(* Properties of Wallet.NewTx and Wallet.SendTx (specification Spec) *)

ResolveKinds == {"GetNonce", "GetSuggestGasPrice", "EstimateGas"}
StepKinds == ResolveKinds \cup {"ChainID", "SignTx", "SendTransaction"}

\* the place of a query in the resolution order
Rank(kind) ==
    CASE kind = "GetNonce" -> 1 [] kind = "GetSuggestGasPrice" -> 2
      [] kind = "EstimateGas" -> 3

\* build, sign, broadcast
Phase(kind) ==
    CASE kind \in ResolveKinds -> 1 [] kind \in {"ChainID", "SignTx"} -> 2
      [] kind = "SendTransaction" -> 3

Count(p, kind) == Cardinality({i \in DOMAIN log[p] : log[p][i].kind = kind})
\* the answer to the call's query of a kind
Answer(p, kind) ==
    log[p][CHOOSE i \in DOMAIN log[p] : log[p][i].kind = kind].val

\* C1: the queries of a NewTx are issued in the order nonce, gas price, gas
\* estimate: of two of them, the earlier one in the log has the lower rank.
C1_ResolutionOrder ==
    \A p \in Procs : \A i, j \in DOMAIN log[p] :
        (i < j /\ log[p][i].kind \in ResolveKinds
               /\ log[p][j].kind \in ResolveKinds)
            => Rank(log[p][i].kind) < Rank(log[p][j].kind)

C1_Witness ==
    \E p \in Procs :
        /\ Len(log[p]) >= 3
        /\ log[p][1].kind = "GetNonce"
        /\ log[p][2].kind = "GetSuggestGasPrice"
        /\ log[p][3].kind = "EstimateGas"

\* C2: a failed query of NewTx is the last request of the call and the only
\* one of its kind, and the call has returned its error with no transaction.
C2_FailureAborts ==
    \A p \in Procs : \A i \in DOMAIN log[p] :
        (log[p][i].kind \in ResolveKinds /\ log[p][i].err # NoErr)
            => /\ i = Len(log[p])
               /\ Count(p, log[p][i].kind) = 1
               /\ pc[p] = "done"
               /\ ret[p].err = log[p][i].err
               /\ ret[p].tx = Nil
               /\ ret[p].hash = ZeroHash

\* the gas price query fails after the nonce was resolved and with the gas
\* limit still to estimate
C2_Witness ==
    \E p \in Procs :
        /\ op[p] = "NewTx" /\ pc[p] = "done"
        /\ ret[p].err = "errPrice" /\ ret[p].tx = Nil
        /\ Len(log[p]) = 2 /\ log[p][1].kind = "GetNonce"
        /\ args[p].gasLimit = 0

\* C3: in SendTx a failed step is the last step of the call, which has
\* returned its error and the zero hash; the steps run in the order build,
\* sign, broadcast and each at most once.
C3_SendTxAborts ==
    \A p \in Procs :
        op[p] = "SendTx" =>
            /\ \A i \in DOMAIN log[p] :
                 log[p][i].err # NoErr =>
                    /\ i = Len(log[p])
                    /\ pc[p] = "done"
                    /\ ret[p].err = log[p][i].err
                    /\ ret[p].hash = ZeroHash
            /\ \A i, j \in DOMAIN log[p] :
                 i < j => Phase(log[p][i].kind) <= Phase(log[p][j].kind)
            /\ \A k \in StepKinds : Count(p, k) <= 1
            /\ Count(p, "SendTransaction") = 1 =>
                 /\ Count(p, "SignTx") = 1
                 /\ log[p][Len(log[p])].msg = Answer(p, "SignTx")
                 /\ Answer(p, "SignTx") # Nil

\* the signing fails after a build that queried the node; nothing is broadcast
C3_Witness ==
    \E p \in Procs :
        /\ op[p] = "SendTx" /\ pc[p] = "done"
        /\ ret[p].err = "errSign"
        /\ Count(p, "GetNonce") = 1
        /\ Count(p, "SendTransaction") = 0

\* the fields the caller left unset (nonce 0, gas price nil or 0, gas limit
\* 0), by the query that resolves them
Unset(p, kind) ==
    CASE kind = "GetNonce" -> args[p].nonce = 0
      [] kind = "GetSuggestGasPrice" ->
            args[p].gasPrice = Nil \/ args[p].gasPrice = Ptr(0)
      [] kind = "EstimateGas" -> args[p].gasLimit = 0

\* the caller's values are in the transaction
SuppliedKept(p, tx) ==
    /\ ~Unset(p, "GetNonce") => Deref(tx).Nonce = args[p].nonce
    /\ ~Unset(p, "GetSuggestGasPrice") =>
            Deref(tx).GasPrice = args[p].gasPrice
    /\ ~Unset(p, "EstimateGas") => Deref(tx).Gas = args[p].gasLimit

\* C4 as stated: every finished NewTx has made exactly one query for each
\* unset field and none for a supplied one, and its transaction has the
\* supplied values.
C4_ExactlyOneQueryPerUnsetField ==
    \A p \in Procs :
        (op[p] = "NewTx" /\ pc[p] = "done") =>
            /\ \A k \in ResolveKinds :
                 Count(p, k) = IF Unset(p, k) THEN 1 ELSE 0
            /\ ret[p].tx # Nil => SuppliedKept(p, ret[p].tx)

\* C4, amended: a NewTx never queries for a supplied field nor twice for an
\* unset one; a NewTx that returns a transaction has made exactly one query
\* for each unset field and its transaction has the supplied values.
C4_OneQueryPerUnsetFieldOnSuccess ==
    \A p \in Procs :
        op[p] = "NewTx" =>
            /\ \A k \in ResolveKinds :
                 Count(p, k) <= IF Unset(p, k) THEN 1 ELSE 0
            /\ (pc[p] = "done" /\ ret[p].err = NoErr) =>
                 /\ \A k \in ResolveKinds :
                      Count(p, k) = IF Unset(p, k) THEN 1 ELSE 0
                 /\ ret[p].tx # Nil /\ SuppliedKept(p, ret[p].tx)

\* nonce and gas limit supplied, gas price given as zero: one query, for the price
C4_Witness ==
    \E p \in Procs :
        /\ op[p] = "NewTx" /\ pc[p] = "done" /\ ret[p].err = NoErr
        /\ args[p].nonce = 3 /\ args[p].gasLimit = 7 /\ args[p].gasPrice = Ptr(0)
        /\ Len(log[p]) = 1 /\ log[p][1].kind = "GetSuggestGasPrice"
        /\ Deref(ret[p].tx).Nonce = 3 /\ Deref(ret[p].tx).Gas = 7

AllUnset(p) == \A k \in ResolveKinds : Unset(p, k)

\* C5: a NewTx with nonce, gas price and gas limit unset returns the
\* transaction of the node's three answers and of the caller's recipient,
\* value and payload.
C5_AllUnsetTakesAnswers ==
    \A p \in Procs :
        (op[p] = "NewTx" /\ pc[p] = "done" /\ ret[p].err = NoErr /\ AllUnset(p))
            => /\ \A k \in ResolveKinds : Count(p, k) = 1
               /\ ret[p].tx =
                    Ptr([Nonce |-> Answer(p, "GetNonce"),
                         GasPrice |-> Answer(p, "GetSuggestGasPrice"),
                         Gas |-> Answer(p, "EstimateGas"),
                         To |-> Ptr(args[p].to),
                         Value |-> args[p].value,
                         Data |-> args[p].data])

\* the node answers nonce 5, price 6 and estimate 50
C5_Witness ==
    \E p \in Procs :
        /\ op[p] = "NewTx" /\ pc[p] = "done" /\ ret[p].err = NoErr
        /\ AllUnset(p)
        /\ Count(p, "GetNonce") = 1 /\ Answer(p, "GetNonce") = 5
        /\ Deref(ret[p].tx).Nonce = 5
        /\ Deref(ret[p].tx).GasPrice = Ptr(6)
        /\ Deref(ret[p].tx).Gas = 50
        /\ Deref(ret[p].tx).Value = Ptr(1)

\* the nonce and the gas price as resolved before the estimate
ResolvedNonce(p) ==
    IF Unset(p, "GetNonce") THEN Answer(p, "GetNonce") ELSE args[p].nonce
ResolvedGasPrice(p) ==
    IF Unset(p, "GetSuggestGasPrice") THEN Answer(p, "GetSuggestGasPrice")
    ELSE args[p].gasPrice

\* C6: the call submitted for the gas estimate carries the sender, the
\* recipient, the value, the payload, the resolved gas price and the resolved
\* nonce.
C6_EstimateCarriesResolved ==
    \A p \in Procs : \A i \in DOMAIN log[p] :
        log[p][i].kind = "EstimateGas" =>
            LET m == log[p][i].msg
            IN  /\ m.From = WalletAddress
                /\ m.To = Ptr(args[p].to)
                /\ m.Value = args[p].value
                /\ m.Data = args[p].data
                /\ m.GasPrice = ResolvedGasPrice(p)
                /\ "Nonce" \in DOMAIN m
                /\ m.Nonce = ResolvedNonce(p)

----------------------------------------------------------------------------
(* Properties of the wait for a receipt (specification SpecWait) *)

\* The state of the Confirmation Poller: Pending until the wait returns, then
\* named by what it returned.
PollerState ==
    IF wret = NoWRet THEN "Pending"
    ELSE IF wret.receipt # Nil /\ wret.err = NoErr THEN "Confirmed"
    ELSE IF wret.receipt = Nil /\ wret.err = DeadlineExceeded THEN "TimedOut"
    ELSE IF wret.receipt = Nil /\ wret.err = Canceled THEN "Cancelled"
    ELSE "Other"

Terminal == {"Confirmed", "TimedOut", "Cancelled"}

\* the tick interval with its floor of one second
FlooredInterval == IF wargs.interval < Second THEN Second ELSE wargs.interval

\* the queries answered so far were all answered "not found"
OnlyNotFoundBefore(n) == \A i \in 1 .. n : replies[i] = NotFound

\* C7: when the node has the receipt from the N-th query on, a wait is
\* Confirmed only with at least N queries issued and as many ticks fired, with
\* exactly N queries when the earlier ones were answered "not found"; no query
\* is issued before the first tick.
C7_ConfirmedOnlyAfterNTicks ==
    /\ Len(queries) <= ticksFired
    /\ now < FlooredInterval => queries = <<>>
    /\ PollerState = "Confirmed" =>
         /\ wret.receipt = Receipt(wargs.txHash)
         /\ Len(queries) >= foundAt
         /\ ticksFired >= foundAt
         /\ now >= foundAt * FlooredInterval
         /\ OnlyNotFoundBefore(Len(replies) - 1) => Len(queries) = foundAt

C7_Witness ==
    /\ PollerState = "Confirmed"
    /\ foundAt = 3
    /\ Len(queries) = 3
    /\ replies = <<NotFound, NotFound, NoErr>>
    /\ ticksFired = 3

\* C8: a wait whose timeout is shorter than the floored tick interval issues
\* no query and returns no receipt; it returns the timeout error, or the
\* cancellation error when the caller cancelled.
C8_ShortTimeoutTimesOut ==
    wargs.timeout < FlooredInterval =>
        /\ queries = <<>>
        /\ PollerState \in {"Pending", "TimedOut", "Cancelled"}
        /\ (PollerState = "Cancelled") => parentErr = Canceled
        /\ (wpc = "done" /\ parentErr = NoErr) => PollerState = "TimedOut"

\* the node has the receipt from the first query on, the interval is floored
C8_Witness ==
    /\ PollerState = "TimedOut"
    /\ wargs.timeout = 1 /\ wargs.interval = 0
    /\ foundAt = 1
    /\ now = 1

\* a step from a terminal state changes neither the result nor the queries
TerminalStays ==
    (PollerState \in Terminal) =>
        (wret' = wret /\ queries' = queries /\ wpc' = wpc)

QueryFailures == {ErrRPC}

\* C11: a receipt query that fails is the last query of the wait, which has
\* returned the failure as its error: the query is not issued again.
C11_QueryFailureReturned ==
    \A i \in DOMAIN replies :
        replies[i] \in QueryFailures =>
            /\ i = Len(replies)
            /\ Len(queries) = i
            /\ wpc = "done"
            /\ wret.receipt = Nil
            /\ wret.err = replies[i]

\* the ticker runs on the supplied interval, on one second when that is
\* smaller, and the wait returns no error on account of the interval
IntervalFloored ==
    wpc # "idle" =>
        /\ wargs.interval < Second => period = Second
        /\ wargs.interval >= Second => period = wargs.interval
        /\ period >= Second
        /\ wpc = "done" => wret.err \in {NoErr, DeadlineExceeded, Canceled}

\* C12 as stated: the interval has its floor of one second, and two
\* consecutive receipt queries of a wait are at least one second apart.
C12_QueriesOneSecondApart ==
    /\ IntervalFloored
    /\ \A i \in DOMAIN queries :
         i > 1 => queries[i].at - queries[i - 1].at >= Second

\* C12, amended: the interval has its floor of one second, and the n-th
\* receipt query of a wait is issued no earlier than n intervals after the
\* wait began.
C12_QueriesNoFasterThanTicks ==
    /\ IntervalFloored
    /\ \A i \in DOMAIN queries : queries[i].at >= i * period

\* a positive interval under one second is floored; the first query is still
\* in flight when the second tick fires, so that the second query is late and
\* the third follows it by less than a second
C12_Witness ==
    /\ wargs.interval = 1
    /\ period = Second
    /\ Len(queries) >= 3
    /\ queries[3].at - queries[2].at < Second
    /\ queries[2].at - queries[1].at > Second

----------------------------------------------------------------------------
(* Properties of the chain identity and of signing (specification          *)
(* SpecChain)                                                              *)

\* the chain-identity queries of the Provider that were answered
Answered == {i \in DOMAIN chainHist.asked : chainHist.asked[i].err = NoErr}

\* C13 as stated: a Provider issues the chain-identity query at most once,
\* and never when it was made with its chain identity.
C13_AtMostOneChainQuery ==
    /\ Len(chainHist.asked) <= 1
    /\ chainHist.ctor = "NewProviderWithChainId" => chainHist.asked = <<>>

\* C13, amended: of the chain-identity queries of a Provider at most one is
\* answered, and it is the last one issued; a method issues at most one; a
\* Provider made with its chain identity issues none.
C13_AtMostOneAnsweredChainQuery ==
    /\ Cardinality(Answered) <= 1
    /\ \A i \in Answered : i = Len(chainHist.asked)
    /\ \A p \in Procs : Count(p, "ChainID") <= 1
    /\ chainHist.ctor = "NewProviderWithChainId" => chainHist.asked = <<>>

\* the first query fails, the second is answered, the third method uses the
\* cache
C13_Witness ==
    /\ Len(chainHist.asked) = 2
    /\ chainHist.asked[1].err # NoErr
    /\ chainHist.asked[2].err = NoErr
    /\ Len(chainHist.got) = 2
    /\ calls[1] = 3 /\ pc[1] = "done" /\ log[1] = <<>>
    /\ op[1] = "GetChainID"

\* once GetChainID has returned a value the Provider issues no query and keeps
\* its chain identity
ChainIdStays ==
    chainHist.got # <<>> =>
        (chainHist'.asked = chainHist.asked /\ chainId' = chainId)

\* C14: every value GetChainID returns is the value of its first successful
\* call, and after that call no chain-identity query is issued.
C14_ChainIdImmutable ==
    /\ [](\A i \in DOMAIN chainHist.got : chainHist.got[i] = chainHist.got[1])
    /\ [](\A p \in Procs :
            (op[p] = "GetChainID" /\ pc[p] = "done" /\ ret[p].err = NoErr)
                => /\ ret[p].chainId = chainHist.got[1]
                   /\ ret[p].chainId = chainId)
    /\ [][ChainIdStays]_vars

\* the third GetChainID on a Provider whose first query answered 5
C14_Witness ==
    /\ op[1] = "GetChainID" /\ pc[1] = "done"
    /\ calls[1] = 3
    /\ chainHist.ctor = "NewProvider"
    /\ Len(chainHist.asked) = 1
    /\ chainHist.got = <<Ptr(5), Ptr(5), Ptr(5)>>
    /\ ret[1].chainId = Ptr(5)

\* C15: a SignTx whose chain-identity query fails returns that error and no
\* transaction and computes no signature; every other SignTx signs the
\* transaction it was given, whatever its recipient and value, and fails only
\* with the error of the signing.
C15_SignTxFailsOnlyOnChainIdOrSigning ==
    \A p \in Procs :
        (op[p] = "SignTx" /\ pc[p] = "done") =>
            IF Count(p, "ChainID") = 1 /\ log[p][1].err # NoErr
            THEN /\ ret[p].err = log[p][1].err
                 /\ ret[p].tx = Nil
                 /\ Count(p, "SignTx") = 0
            ELSE /\ Count(p, "SignTx") = 1
                 /\ log[p][Len(log[p])].kind = "SignTx"
                 /\ log[p][Len(log[p])].msg[1] = args[p].tx
                 /\ ret[p].err = log[p][Len(log[p])].err
                 /\ ret[p].err = NoErr =>
                      /\ ret[p].tx # Nil
                      /\ Deref(ret[p].tx).tx = Deref(args[p].tx)

\* the chain identity cannot be resolved for a transaction with no recipient
\* and a negative value
C15_Witness ==
    \E p \in Procs :
        /\ op[p] = "SignTx" /\ pc[p] = "done"
        /\ ret[p].err = "errChainID" /\ ret[p].tx = Nil
        /\ Deref(args[p].tx).To = Nil
        /\ Deref(args[p].tx).Value = Ptr(-2)

\* C16: a transaction signed by SignTx verifies under the chain identity of
\* its Provider and under no other; the same content signed under another
\* identity is a different signed transaction, which verifies under that
\* identity and not under the Provider's.
C16_ReplayProtection ==
    \A p \in Procs :
        (op[p] = "SignTx" /\ pc[p] = "done" /\ ret[p].err = NoErr) =>
            /\ Sender(chainId, ret[p].tx) = [val |-> WalletAddress, err |-> NoErr]
            /\ \A c \in ChainIds :
                 Ptr(c) # chainId =>
                    /\ Sender(Ptr(c), ret[p].tx).err # NoErr
                    /\ SignedTx(args[p].tx, Ptr(c)) # ret[p].tx
                    /\ Sender(chainId, SignedTx(args[p].tx, Ptr(c))).err # NoErr
                    /\ Sender(Ptr(c), SignedTx(args[p].tx, Ptr(c))).err = NoErr

\* a transaction signed on a Provider of chain 5
C16_Witness ==
    \E p \in Procs :
        /\ op[p] = "SignTx" /\ pc[p] = "done" /\ ret[p].err = NoErr
        /\ chainId = Ptr(5)
        /\ Deref(ret[p].tx).chainId = 5
        /\ Sender(Ptr(1), ret[p].tx).err = "ErrInvalidChainId"

----------------------------------------------------------------------------
(* Properties of the broadcast and of SendTxAndWait (specification SpecKit) *)

\* the last request of the call of p
LastEntry(p) == log[p][Len(log[p])]

\* the call of p has broadcast: its last request is a SendTransaction
Broadcast(p) == log[p] # <<>> /\ LastEntry(p).kind = "SendTransaction"

\* C17: a SendSignedTx that the node accepts has returned the hash of the
\* signed transaction with no receipt query issued and no time spent waiting;
\* one that the node rejects has returned the node's error with the zero hash.
\* Inside SendTxAndWait the hash is at hand before the wait begins.
C17_SendSignedTxReturnsAtOnce ==
    \A p \in Procs :
        Broadcast(p) =>
            /\ op[p] = "SendSignedTx" =>
                 /\ pc[p] = "done"
                 /\ queries = <<>> /\ wpc = "idle" /\ now = 0
                 /\ LastEntry(p).msg = args[p].signedTx
                 /\ IF LastEntry(p).err = NoErr
                    THEN /\ ret[p].err = NoErr
                         /\ ret[p].hash = Hash(args[p].signedTx)
                         /\ ret[p].hash # ZeroHash
                    ELSE /\ ret[p].err = LastEntry(p).err
                         /\ ret[p].hash = ZeroHash
            /\ op[p] = "SendTxAndWait" =>
                 IF LastEntry(p).err = NoErr
                 THEN /\ loc[p].txHash = Hash(LastEntry(p).msg)
                      /\ pc[p] = "wait" => (queries = <<>> /\ wpc = "idle")
                 ELSE /\ pc[p] = "done"
                      /\ ret[p].err = LastEntry(p).err
                      /\ queries = <<>> /\ wpc = "idle"

\* the node accepts a signed transaction: its hash is returned, nothing is
\* polled
C17_Witness ==
    \E p \in Procs :
        /\ op[p] = "SendSignedTx" /\ pc[p] = "done"
        /\ LastEntry(p).err = NoErr
        /\ ret[p].err = NoErr
        /\ ret[p].hash = Hash(args[p].signedTx)
        /\ queries = <<>>

\* C18: SendTxAndWait builds, signs, broadcasts and polls in that order: a
\* wait has begun only after the node accepted the broadcast, every receipt
\* query asks for the hash of the transaction that was broadcast, and a call
\* whose send failed has returned the failure with no receipt and has issued
\* no receipt query.
C18_SendTxAndWaitOrder ==
    \A p \in Procs :
        op[p] = "SendTxAndWait" =>
            /\ \A i, j \in DOMAIN log[p] :
                 i < j => Phase(log[p][i].kind) <= Phase(log[p][j].kind)
            /\ (wpc # "idle" \/ queries # <<>>) =>
                 /\ Broadcast(p) /\ LastEntry(p).err = NoErr
                 /\ Count(p, "SignTx") = 1
                 /\ LastEntry(p).msg = Answer(p, "SignTx")
                 /\ wargs.txHash = Hash(LastEntry(p).msg)
                 /\ wargs.timeout = args[p].timeout
                 /\ \A i \in DOMAIN queries :
                      queries[i].txHash = Hash(LastEntry(p).msg)
            /\ \A i \in DOMAIN log[p] :
                 log[p][i].err # NoErr =>
                    /\ i = Len(log[p])
                    /\ pc[p] = "done"
                    /\ ret[p].err = log[p][i].err
                    /\ ret[p].receipt = Nil
                    /\ queries = <<>> /\ wpc = "idle"
            /\ (pc[p] = "done" /\ ret[p].receipt # Nil) =>
                 /\ ret[p].err = NoErr
                 /\ ret[p].receipt = Receipt(Hash(LastEntry(p).msg))

\* the receipt of the broadcast transaction comes with the first query
C18_Witness ==
    \E p \in Procs :
        /\ op[p] = "SendTxAndWait" /\ pc[p] = "done"
        /\ ret[p].err = NoErr /\ ret[p].receipt # Nil
        /\ Len(queries) = 1
        /\ Count(p, "GetNonce") = 1
        /\ Count(p, "ChainID") = 1

----------------------------------------------------------------------------
(* Properties of the nonce under two sends from one account                *)
(* (specifications SpecRace and SpecSeq)                                   *)

\* the call's request of a kind
EntryOf(p, kind) == log[p][CHOOSE i \in DOMAIN log[p] : log[p][i].kind = kind]

\* the call of p is a SendTx with the nonce unset whose nonce query answered
NonceResolved(p) ==
    /\ op[p] = "SendTx" /\ args[p].nonce = 0
    /\ Count(p, "GetNonce") = 1
    /\ EntryOf(p, "GetNonce").err = NoErr

\* the call of p has signed its transaction
Signed(p) == Count(p, "SignTx") = 1 /\ EntryOf(p, "SignTx").err = NoErr
SignedNonce(p) == Deref(EntryOf(p, "SignTx").val).tx.Nonce

\* the node accepted the broadcast of p
Accepted(p) == Broadcast(p) /\ LastEntry(p).err = NoErr

\* both sends resolved the same nonce
SameNonce ==
    /\ \A p \in Procs : NonceResolved(p)
    /\ \A p, q \in Procs : Answer(p, "GetNonce") = Answer(q, "GetNonce")

\* C19: when two concurrent SendTx with the nonce unset have resolved the same
\* nonce, both sign a transaction of that nonce, the node accepts at most one
\* of the two broadcasts, and next to an accepted broadcast the other one is
\* rejected and returns the node's error with the zero hash.
C19_SameNonceCollides ==
    SameNonce =>
        /\ \A p \in Procs : Signed(p) => SignedNonce(p) = Answer(p, "GetNonce")
        /\ \A p, q \in Procs :
             (p # q /\ Accepted(p)) =>
                /\ ~Accepted(q)
                /\ Broadcast(q) =>
                     /\ LastEntry(q).err \in {"errNonceTooLow", "errBroadcast"}
                     /\ pc[q] = "done"
                     /\ ret[q].err = LastEntry(q).err
                     /\ ret[q].hash = ZeroHash

\* both resolve nonce 5 before either broadcasts; the first broadcast is
\* accepted, the second is rejected as stale
C19_Witness ==
    /\ SameNonce
    /\ Answer(1, "GetNonce") = 5
    /\ Accepted(1) /\ ret[1].hash # ZeroHash
    /\ Broadcast(2) /\ ret[2].err = "errNonceTooLow"
    /\ SignedNonce(1) = SignedNonce(2)

\* C20: of two SendTx with the nonce unset that run one after the other, each
\* signs a transaction of the nonce it was answered; the second nonce is not
\* below the first, and is above it when the answer has grown in between.
C20_SequentialNoncesIncrease ==
    (\A p \in Procs : NonceResolved(p) /\ Signed(p)) =>
        /\ \A p \in Procs : SignedNonce(p) = Answer(p, "GetNonce")
        /\ SignedNonce(1) <= SignedNonce(2)
        /\ Answer(1, "GetNonce") < Answer(2, "GetNonce")
             => SignedNonce(1) < SignedNonce(2)

\* the answer grows by one between the two queries, with no broadcast accepted
C20_Witness ==
    /\ \A p \in Procs : NonceResolved(p) /\ Signed(p)
    /\ Answer(1, "GetNonce") = 5 /\ Answer(2, "GetNonce") = 6
    /\ SignedNonce(1) = 5 /\ SignedNonce(2) = 6
    /\ ~Accepted(1)

----------------------------------------------------------------------------
(* The numeric converter *)

\* the conversions made, with their place in conv
ConvCalls == {conv[i] : i \in 1 .. Len(conv)}

\* a Decimal with the trailing zeros of its coefficient moved to its exponent
Canon(d) ==
    LET t == TrimRight(d.value.abs)
    IN  IF t = <<>> THEN ZeroDecimal
        ELSE [value |-> [neg |-> d.value.neg, abs |-> t],
              exp |-> d.exp + Len(d.value.abs) - Len(t)]

\* Decimal.Equal: the same number
SameDecimal(d, e) == Canon(d) = Canon(e)

\* the string writes a decimal number
IsDecimalString(d) == NewFromString(d).err = NoErr

\* the digits the string has after its point
FractionDigits(d) == 0 - NewFromString(d).val.exp

\* the number an argument of ToWei stands for
Amount(iAmount) ==
    IF iAmount.type = "string" THEN NewFromString(iAmount.v).val
    ELSE IF iAmount.type = "float64" THEN NewFromFloat(iAmount.v)
    ELSE IF iAmount.type = "int64" THEN [value |-> iAmount.v, exp |-> 0]
    ELSE iAmount.v

IsAmount(iAmount) == iAmount.type = "string" => IsDecimalString(iAmount.v)

\* a * 10^s
Scaled(a, s) == [value |-> a.value, exp |-> a.exp + s]

\* the integer part of a number
IntegerPart(d) ==
    LET abs == d.value.abs
    IN  IF d.exp >= 0 THEN BigInt(d.value.neg, abs \o Zeros(d.exp))
        ELSE IF Len(abs) + d.exp <= 0 THEN BigInt(FALSE, <<>>)
        ELSE BigInt(d.value.neg, SubSeq(abs, 1, Len(abs) + d.exp))

\* C21: for every non-negative integer v and every scale s, scales above 16
\* such as 18 included, ToWei(ToDecimal(v, s), s) is v.
C21_BaseUnitsRoundTrip ==
    (/\ Len(conv) = 2
     /\ conv[1].fn = "ToDecimal"
     /\ conv[1].arg.type = "*big.Int"
     /\ ~conv[1].arg.v.neg)
    => conv[2].result = conv[1].arg.v

\* C22: for every scale s and every decimal string d with at most s digits
\* after the point, ToDecimal(ToWei(d, s), s) is exactly d.
C22_DecimalRoundTrip ==
    (/\ Len(conv) = 2
     /\ conv[1].fn = "ToWei"
     /\ conv[1].arg.type = "string"
     /\ IsDecimalString(conv[1].arg.v)
     /\ FractionDigits(conv[1].arg.v) <= conv[1].decimals)
    => SameDecimal(conv[2].result, NewFromString(conv[1].arg.v).val)

\* C23: ToWei(d, s) is the integer part of d * 10^s for every decimal d, one
\* with more than s digits after the point included.
C23_ToWeiTruncates ==
    \A c \in ConvCalls :
        (c.fn = "ToWei" /\ IsAmount(c.arg))
        => c.result = IntegerPart(Scaled(Amount(c.arg), c.decimals))

\* a non-negative whole number, or one and a half
WholeOrHalf(iAmount) ==
    /\ IsAmount(iAmount)
    /\ LET a == Canon(Amount(iAmount))
       IN  /\ ~a.value.neg
           /\ \/ a.exp >= 0
              \/ a.exp = -1 /\ a.value.abs[Len(a.value.abs)] = 5

One == [value |-> BigInt(FALSE, <<1>>), exp |-> 0]

\* C24: for every scale s, ToWei(a, s) is exactly a * 10^s when a is a
\* non-negative whole number or a half of one, and ToDecimal(10^s, s) is 1.
C24_WholesAndHalvesExact ==
    \A c \in ConvCalls :
        /\ (c.fn = "ToWei" /\ WholeOrHalf(c.arg))
           => SameDecimal([value |-> c.result, exp |-> 0],
                          Scaled(Amount(c.arg), c.decimals))
        /\ (/\ c.fn = "ToDecimal"
            /\ c.arg.type = "*big.Int"
            /\ c.arg.v = BigInt(FALSE, <<1>> \o Zeros(c.decimals)))
           => SameDecimal(c.result, One)

----------------------------------------------------------------------------
(* Cancellation and termination of the wait *)

ContextErrors == {DeadlineExceeded, Canceled}

\* C25 as stated: the deadline and the caller's cancellation are observed
\* only at tick boundaries, so a wait ended by one of them ends at a time
\* the ticker fires (or at the call) and not between two ticks.
C25_DoneOnlyAtTicks ==
    (wpc = "done" /\ wret.err \in ContextErrors) => now % period = 0

\* the context is done while the wait is blocked in its select and no tick
\* is waiting: the wait takes the case of ctx.Done() before any time passes,
\* any tick fires or any query is issued
DoneTakenAtOnce ==
    (wpc = "select" /\ ctxErr # NoErr /\ tickerC = 0)
    => /\ now' = now
       /\ ticksFired' = ticksFired
       /\ queries' = queries
       /\ \/ wpc' = "select" /\ wret' = wret
          \/ wpc' = "done" /\ wret' = [receipt |-> Nil, err |-> ctxErr]

\* C25 (amended): the deadline and the caller's cancellation are observed
\* whenever the wait is blocked in its select, between ticks as well as at
\* them: one that occurs while no receipt query is in flight and no tick is
\* waiting ends the wait at once, before the next tick.
C25_DoneTakenBeforeNextTick == [][DoneTakenAtOnce]_vars

\* a wait that had made a query is ended by its context between two ticks
C25_Witness ==
    /\ wpc = "done"
    /\ wret.err \in ContextErrors
    /\ Len(queries) >= 1
    /\ now % period # 0

\* C26: every wait started with a finite timeout terminates under fair
\* scheduling of the timer, the deadline and the receipt query: it leaves
\* Pending for Confirmed, TimedOut or Cancelled, also when the query answers
\* "not found" or fails on every tick.
C26_WaitTerminates == (wpc \in {"select", "query"}) ~> (wpc = "done")

\* a wait whose queries all failed or found nothing, more than once, has
\* ended with the timeout error
C26_Witness ==
    /\ wpc = "done"
    /\ wret.err = DeadlineExceeded
    /\ Len(replies) >= 2
    /\ \A i \in 1 .. Len(replies) : replies[i] \in {NotFound, ErrRPC}
    /\ \E i \in 1 .. Len(replies) : replies[i] = ErrRPC

----------------------------------------------------------------------------
(* The chain identity under concurrent callers, and the results of SignTx *)

\* the identities the node has answered so far
IdentitiesAnswered ==
    {chainHist.asked[i].val :
        i \in {j \in 1 .. Len(chainHist.asked) : chainHist.asked[j].err = NoErr}}

\* the node has given one identity in all its answers
SameIdentity == Cardinality(IdentitiesAnswered) <= 1

\* caller p has a chain identity back from GetChainID
GetChainIDReturned(p) ==
    pc[p] = "done" /\ op[p] = "GetChainID" /\ ret[p].err = NoErr

\* C27: when concurrent GetChainID calls on a Provider with nothing cached
\* are answered the same identity by the node, every call that returns a
\* value returns that identity and the cache holds it: no interleaving
\* leaves the cache empty or gives a caller another value.
C27_ConcurrentGetChainIDAgree ==
    SameIdentity =>
        \A p \in Procs :
            GetChainIDReturned(p) =>
                /\ ret[p].chainId # Nil
                /\ ret[p].chainId \in IdentitiesAnswered
                /\ chainId = ret[p].chainId

\* both callers found the cache empty in their first call, both asked the
\* node, and both have the one identity back
C27_Witness ==
    /\ \A p \in Procs : GetChainIDReturned(p) /\ calls[p] = 1
    /\ \A p \in Procs : Len(log[p]) = 1
    /\ SameIdentity
    /\ ret[1].chainId = ret[2].chainId

\* a *big.Int that is not negative; nil is the zero of a transaction's field
NonNegative(x) == x = Nil \/ Deref(x) >= 0

\* C28: every transaction Wallet.NewTx returns has a gasPrice and a value
\* that are not negative, whatever the caller passed, a negative gasPrice or
\* a negative value included.
C28_NewTxNonNegative ==
    \A p \in Callers :
        (pc[p] = "done" /\ op[p] = "NewTx" /\ ret[p].tx # Nil)
        => /\ NonNegative(Deref(ret[p].tx).GasPrice)
           /\ NonNegative(Deref(ret[p].tx).Value)

\* a Provider made with no chain identity, whose queries have all failed
NothingAnswered == chainHist.ctor = "NewProvider" /\ IdentitiesAnswered = {}

\* the query before the last one failed
RetriedAfterFailure ==
    /\ Len(chainHist.asked) >= 2
    /\ chainHist.asked[Len(chainHist.asked) - 1].err # NoErr

\* C29: a GetChainID that fails leaves the cache unset and returns no value;
\* a failure is never cached, so the next call asks the node again and, when
\* that query succeeds, caches the answer and returns it.
C29_FailureNotCached ==
    /\ NothingAnswered => chainId = Nil
    /\ \A p \in Callers :
         /\ (pc[p] = "done" /\ op[p] = "GetChainID" /\ ret[p].err # NoErr)
            => ret[p].chainId = Nil
         /\ (NothingAnswered /\ pc[p] \in {"idle", "done"})
            => Len(chainHist.asked) = calls[p]
         /\ (GetChainIDReturned(p) /\ Len(log[p]) = 1 /\ RetriedAfterFailure)
            => /\ ret[p].chainId = log[p][1].val
               /\ chainId = log[p][1].val

\* the first GetChainID failed, the second asked again and has the answer
C29_Witness ==
    /\ GetChainIDReturned(1)
    /\ calls[1] = 2
    /\ Len(chainHist.asked) = 2
    /\ chainHist.asked[1].err # NoErr
    /\ Len(log[1]) = 1
    /\ chainId = ret[1].chainId

\* SignTx has returned an error to caller p
SignTxFailed(p) == op[p] = "SignTx" /\ pc[p] = "done" /\ ret[p].err # NoErr

\* C30 as stated: whenever SignTx returns an error, for either cause, the
\* transaction it returns with the error is nil.
C30_ErrorTxIsNil ==
    \A p \in Callers : SignTxFailed(p) => ret[p].tx = Nil

\* C30 (amended): when SignTx returns an error because the chain identity
\* could not be resolved, the transaction returned with it is nil; when the
\* signing itself failed, it is an empty transaction object, not nil.
C30_ErrorTxNilOnlyForChainId ==
    \A p \in Callers :
        SignTxFailed(p) =>
            IF log[p][Len(log[p])].kind = "ChainID"
            THEN ret[p].tx = Nil
            ELSE /\ log[p][Len(log[p])].kind = "SignTx"
                 /\ ret[p].tx # Nil
                 /\ Deref(ret[p].tx) = [inner |-> Nil]

\* the signing failed and an empty transaction came back with the error
C30_Witness ==
    /\ SignTxFailed(1)
    /\ ret[1].err = "errSign"
    /\ ret[1].tx # Nil

====
